---------------------------- MODULE Spec2Model ----------------------------
(***************************************************************************)
(* kalc: a command-line calculator.  main hands one expression string to   *)
(* tokenize, the token vector to the recursive-descent Parser, the tree to *)
(* ASTNode::eval and the value to format_float (src/src/main.rs).          *)
(*                                                                         *)
(* A char is a one-character string; the character U+00B2 (SUPERSCRIPT     *)
(* TWO, accepted by char::is_numeric, no ASCII digit) is written "U+00B2". *)
(* An f64 is the pair <<n, d>> of an exact fraction n/d in lowest terms,   *)
(* d > 0; <<1, 0>> is +inf, <<-1, 0>> is -inf and <<0, 0>> is NaN.         *)
(* Rounding is not modelled.  No operand of the calculator is negative and *)
(* no product is taken of a sum, so -0.0 never arises.                     *)
(* Option<T> is a sequence: <<>> is None and <<x>> is Some(x).             *)
(***************************************************************************)
EXTENDS Integers, Sequences, FiniteSets, TLC

\* ------------------------------------------------------------------ bounds
\* Longest expression string (in chars) handed to main.
MaxLen == 4
\* Longest token sequence handed directly to the parser, before the
\* optional closing Eof.
MaxToks == 5

\* ------------------------------------------------------------- characters
AsciiDigits == {"0", "1", "2", "3", "4", "5", "6", "7", "8", "9"}

\* The input alphabet: two digits, the decimal point, the four operators,
\* the two skipped characters, one unrecognized character and one
\* non-ASCII numeric character.
Chars == {"0", "1", ".", "+", "-", "x", "/", " ", "\n", "&", "U+00B2"}

\* char::is_numeric: the Unicode general categories Nd, Nl and No.
IsNumeric(c) == c \in AsciiDigits \cup {"U+00B2"}

\* char::is_whitespace restricted to the alphabet (str::trim).
IsWhitespace(c) == c \in {" ", "\n"}

None == <<>>
Some(x) == <<x>>

RECURSIVE SeqsUpTo(_, _)
SeqsUpTo(S, n) ==
    IF n = 0 THEN {<<>>}
    ELSE LET shorter == SeqsUpTo(S, n - 1)
         IN  shorter \cup {Append(s, c) : s \in {t \in shorter : Len(t) = n - 1}, c \in S}

\* ---------------------------------------------------------------- f64
Abs(n) == IF n < 0 THEN -n ELSE n

RECURSIVE Gcd(_, _)
Gcd(a, b) == IF b = 0 THEN a ELSE Gcd(b, a % b)

Sign(n) == IF n < 0 THEN -1 ELSE IF n > 0 THEN 1 ELSE 0

NaN == <<0, 0>>
IsNaN(a) == a[2] = 0 /\ a[1] = 0
IsInf(a) == a[2] = 0 /\ a[1] # 0

\* The fraction n/d, d # 0, in lowest terms with a positive denominator.
Frac(n, d) ==
    LET g == Gcd(Abs(n), Abs(d))
    IN  IF d < 0 THEN <<(-n) \div g, (-d) \div g>> ELSE <<n \div g, d \div g>>

FNeg(a) == <<-a[1], a[2]>>

\* left + right
FAdd(a, b) ==
    IF IsNaN(a) \/ IsNaN(b) THEN NaN
    ELSE IF IsInf(a) THEN (IF IsInf(b) /\ b[1] # a[1] THEN NaN ELSE a)
    ELSE IF IsInf(b) THEN b
    ELSE Frac(a[1] * b[2] + b[1] * a[2], a[2] * b[2])

\* left - right
FSub(a, b) == FAdd(a, FNeg(b))

\* left * right
FMul(a, b) ==
    IF IsNaN(a) \/ IsNaN(b) THEN NaN
    ELSE IF IsInf(a) \/ IsInf(b)
         THEN (IF a[1] = 0 \/ b[1] = 0 THEN NaN ELSE <<Sign(a[1]) * Sign(b[1]), 0>>)
    ELSE Frac(a[1] * b[1], a[2] * b[2])

\* left / right; a zero divisor is +0.0
FDiv(a, b) ==
    IF IsNaN(a) \/ IsNaN(b) THEN NaN
    ELSE IF IsInf(a) THEN (IF IsInf(b) THEN NaN
                           ELSE <<a[1] * (IF b[1] < 0 THEN -1 ELSE 1), 0>>)
    ELSE IF IsInf(b) THEN <<0, 1>>
    ELSE IF b[1] = 0 THEN (IF a[1] = 0 THEN NaN ELSE <<Sign(a[1]), 0>>)
    ELSE Frac(a[1] * b[2], a[2] * b[1])

DigitValue(c) ==
    CASE c = "0" -> 0 [] c = "1" -> 1 [] c = "2" -> 2 [] c = "3" -> 3
      [] c = "4" -> 4 [] c = "5" -> 5 [] c = "6" -> 6 [] c = "7" -> 7
      [] c = "8" -> 8 [] c = "9" -> 9

RECURSIVE Pow10(_)
Pow10(k) == IF k = 0 THEN 1 ELSE 10 * Pow10(k - 1)

\* The integer written by a string of ASCII digits ("" is 0).
RECURSIVE DecimalValue(_)
DecimalValue(s) ==
    IF s = <<>> THEN 0
    ELSE 10 * DecimalValue(SubSeq(s, 1, Len(s) - 1)) + DigitValue(s[Len(s)])

\* str::parse::<f64> on a text over the characters the literal loop admits:
\* Ok for ASCII digits with at most one '.', and at least one digit ("1." and
\* ".5" are accepted); an error for any other character.
ParseF64(s) ==
    LET dots   == {i \in 1..Len(s) : s[i] = "."}
        digs   == {i \in 1..Len(s) : s[i] \in AsciiDigits}
    IN  IF digs \cup dots # 1..Len(s) \/ Cardinality(dots) > 1 \/ digs = {}
        THEN [ok |-> FALSE, value |-> NaN]
        ELSE LET p    == IF dots = {} THEN Len(s) + 1 ELSE CHOOSE i \in dots : TRUE
                 int  == SubSeq(s, 1, p - 1)
                 frac == SubSeq(s, p + 1, Len(s))
             IN  [ok |-> TRUE,
                  value |-> Frac(DecimalValue(int \o frac), Pow10(Len(frac)))]

\* ---------------------------------------------------------------- tokens
Add == [type |-> "Add"]
Sub == [type |-> "Sub"]
Mul == [type |-> "Mul"]
Div == [type |-> "Div"]
Eof == [type |-> "Eof"]
Number(v) == [type |-> "Number", value |-> v]

\* ------------------------------------------------------------------- AST
NumberNode(v) == [type |-> "Number", value |-> v]
BinaryOp(left, op, right) ==
    [type |-> "BinaryOp", left |-> left, op |-> op, right |-> right]

RECURSIVE eval(_)
eval(node) ==
    IF node.type = "Number" THEN node.value
    ELSE LET left  == eval(node.left)
             right == eval(node.right)
         IN  CASE node.op = "Mul" -> FMul(left, right)
               [] node.op = "Add" -> FAdd(left, right)
               [] node.op = "Sub" -> FSub(left, right)
               [] node.op = "Div" -> FDiv(left, right)

\* format_float: an integral value prints with no decimals, any other value
\* (inf and NaN included: their fract() is NaN) prints by Display.
format_float(num) ==
    IF num[2] = 1 THEN <<"{:.0}", num[1]>>
    ELSE IF num[2] = 0
         THEN <<"{}", CASE num[1] > 0 -> "inf" [] num[1] < 0 -> "-inf" [] OTHER -> "NaN">>
    ELSE <<"{}", num>>

\* ------------------------------------------------------------ Peekable<Iter>
\* A Peekable over a slice is the number of elements its user has taken
\* (pos) and the number the slice iterator underneath has yielded (iter).
\* peek() pulls one element from the slice iterator unless one is held.
PeekIter(pos, iter, len) ==
    IF iter > pos THEN iter ELSE IF pos < len THEN pos + 1 ELSE iter

\* What peek() returns.
PeekItem(seq, pos) == IF pos < Len(seq) THEN Some(seq[pos + 1]) ELSE None

\* next() as it would be if the element were not taken.
NextPosStuck(pos, len) == pos

\* next() hands out the held element, or pulls one.
NextPos(pos, len) == IF pos < len THEN pos + 1 ELSE pos
NextIter(pos, iter, len) ==
    IF iter > pos THEN iter ELSE IF pos < len THEN pos + 1 ELSE iter

\* ------------------------------------------------------------------ state
VARIABLES
    args,        \* env::args() after the program name: a sequence of strings
    stdin,       \* the line standard input holds
    pc,          \* where the program is
    chars,       \* expr, and the Vec<char> collected from it
    src_pos,     \* tokenize: chars taken from src
    src_iter,    \* tokenize: chars the slice iterator under src has yielded
    tokens,      \* the Vec<Token>
    digits,      \* tokenize: the literal being accumulated
    has_decimal, \* tokenize: the literal holds a '.'
    tok_pos,     \* Parser: tokens taken from self.tokens
    tok_iter,    \* Parser: tokens the slice iterator underneath has yielded
    stack,       \* Parser: the return addresses of the calls in progress
    ret,         \* Parser: the Option<ASTNode> the last call returned
    add_expr,    \* parse_additive: expr
    add_op,      \* parse_additive: op
    mul_expr,    \* parse_multiplicative: expr
    mul_op,      \* parse_multiplicative: op
    ast,         \* main: the parsed tree
    stdout,      \* the lines printed
    exit         \* main's return value, None while it runs

vars == <<args, stdin, pc, chars, src_pos, src_iter, tokens, digits, has_decimal,
          tok_pos, tok_iter, stack, ret, add_expr, add_op, mul_expr, mul_op,
          ast, stdout, exit>>

inVars    == <<args, stdin>>
lexVars   == <<src_pos, src_iter, digits, has_decimal>>
parseVars == <<tok_pos, tok_iter, stack, ret, add_expr, add_op, mul_expr, mul_op>>

Ok == [ok |-> TRUE, error |-> <<>>]
Err(e) == [ok |-> FALSE, error |-> e]

\* The anyhow errors, by the name the design gives each message.
InvalidExpression == <<"Invalid math expression">>
UnrecognizedCharacter(c) == <<"Unrecognized character: {}", c>>
NumericParseFailure == <<"ParseFloatError">>
ParseFailure == <<"unable to parse expression">>
NoExpressionProvided == <<"No expression provided">>
IoError == <<"io::Error">>

\* ----------------------------------------------------------------- inputs
Strings == SeqsUpTo(Chars, MaxLen)

HelpWord == <<"h", "e", "l", "p">>
HelpFlags == {<<"-", "h">>, <<"-", "-", "h", "e", "l", "p">>}
VersionFlags == {<<"-", "v">>, <<"-", "-", "v", "e", "r", "s", "i", "o", "n">>}

\* [String]::join(" ")
RECURSIVE Join(_)
Join(list) ==
    IF list = <<>> THEN <<>>
    ELSE IF Len(list) = 1 THEN list[1]
    ELSE list[1] \o <<" ">> \o Join(Tail(list))

\* str::trim
RECURSIVE Trim(_)
Trim(s) ==
    IF s = <<>> THEN s
    ELSE IF IsWhitespace(s[1]) THEN Trim(Tail(s))
    ELSE IF IsWhitespace(s[Len(s)]) THEN Trim(SubSeq(s, 1, Len(s) - 1))
    ELSE s

ArgLists ==
    {<<a>> : a \in Strings \cup HelpFlags \cup VersionFlags}
      \cup {<<a, b>> : a \in {s \in Strings : Len(s) = 1},
                       b \in {s \in Strings : Len(s) + 2 <= MaxLen}}

StdinLines == Strings \cup {HelpWord, HelpWord \o <<"\n">>}

\* The state main starts in, but for its inputs.
Blank ==
    /\ chars = <<>> /\ src_pos = 0 /\ src_iter = 0
    /\ tokens = <<>> /\ digits = <<>> /\ has_decimal = FALSE
    /\ tok_pos = 0 /\ tok_iter = 0 /\ stack = <<>> /\ ret = None
    /\ add_expr = None /\ add_op = None /\ mul_expr = None /\ mul_op = None
    /\ ast = None /\ stdout = <<>> /\ exit = None

Init ==
    /\ \/ args \in ArgLists /\ stdin = <<>>
       \/ args = <<>> /\ stdin \in StdinLines
    /\ pc = "main"
    /\ Blank

\* main as it would be if it reported the error and returned Ok(()).
FailSwallowed(e) ==
    /\ pc' = "done"
    /\ exit' = Some(Ok)

\* An error returned from main, through every `?` on the way.
Fail(e) ==
    /\ pc' = "done"
    /\ exit' = Some(Err(e))

\* ------------------------------------------------------------------- main
\* main up to the expression string: the flags, the prompt, the join.
MainArgs ==
    /\ pc = "main"
    /\ IF Len(args) > 0 /\ args[1] \in HelpFlags
       THEN /\ stdout' = Append(stdout, <<"help">>)
            /\ pc' = "done" /\ exit' = Some(Ok)
            /\ UNCHANGED chars
       ELSE IF Len(args) > 0 /\ args[1] \in VersionFlags
       THEN /\ stdout' = Append(stdout, <<"version">>)
            /\ pc' = "done" /\ exit' = Some(Ok)
            /\ UNCHANGED chars
       ELSE IF Len(args) = 0
       THEN /\ stdout' = stdout \o <<(<<"version">>), (<<"prompt">>)>>
            /\ pc' = "read_line"
            /\ UNCHANGED <<chars, exit>>
       ELSE /\ chars' = Join(args)
            /\ pc' = "tokenize"
            /\ UNCHANGED <<stdout, exit>>
    /\ UNCHANGED <<inVars, lexVars, tokens, parseVars, ast>>

\* stdin().read_line(&mut input)? and the tests on input.trim().
MainReadLine ==
    /\ pc = "read_line"
    /\ \E io_ok \in BOOLEAN :
         IF ~io_ok
         THEN Fail(IoError) /\ UNCHANGED <<chars, stdout>>
         ELSE IF Trim(stdin) = HelpWord
         THEN /\ stdout' = Append(stdout, <<"help">>)
              /\ pc' = "done" /\ exit' = Some(Ok)
              /\ UNCHANGED chars
         ELSE IF Trim(stdin) = <<>>
         THEN Fail(NoExpressionProvided) /\ UNCHANGED <<chars, stdout>>
         ELSE /\ chars' = stdin
              /\ pc' = "tokenize"
              /\ UNCHANGED <<stdout, exit>>
    /\ UNCHANGED <<inVars, lexVars, tokens, parseVars, ast>>

\* --------------------------------------------------------------- tokenize
\* tokenize as it would be without the test on the first character.
LeadingOkAny(c) == TRUE

\* The test tokenize makes on the first character.
LeadingOk(c) == IsNumeric(c)

\* tokenize's entry: the input must start with a numeric character.
TokenizeCheck ==
    /\ pc = "tokenize"
    /\ src_iter' = PeekIter(src_pos, src_iter, Len(chars))
    /\ IF PeekItem(chars, src_pos) = None \/ ~LeadingOk(PeekItem(chars, src_pos)[1])
       THEN Fail(InvalidExpression)
       ELSE pc' = "tok_loop" /\ UNCHANGED exit
    /\ UNCHANGED <<inVars, chars, src_pos, digits, has_decimal, tokens, parseVars,
                   ast, stdout>>

\* What the outer loop does with the character n it took.
Dispatch(n) ==
    CASE n = "-" -> "Sub"
      [] n = "+" -> "Add"
      [] n = "x" -> "Mul"
      [] n = "/" -> "Div"
      [] n \in AsciiDigits -> "literal"
      [] n \in {" ", "\n"} -> "continue"
      [] OTHER -> "unrecognized"

\* One turn of `while let Some(n) = src.next()`, and the end of tokenize.
TokenizeNext ==
    /\ pc = "tok_loop"
    /\ src_pos' = NextPos(src_pos, Len(chars))
    /\ src_iter' = NextIter(src_pos, src_iter, Len(chars))
    /\ IF PeekItem(chars, src_pos) = None
       THEN /\ tokens' = Append(tokens, Eof)
            /\ pc' = "parse_program"
            /\ UNCHANGED <<digits, has_decimal, exit>>
       ELSE LET n == chars[src_pos + 1]
                d == Dispatch(n)
            IN  CASE d \in {"Sub", "Add", "Mul", "Div"} ->
                       /\ tokens' = Append(tokens, [type |-> d])
                       /\ UNCHANGED <<pc, digits, has_decimal, exit>>
                  [] d = "literal" ->
                       /\ digits' = <<n>>
                       /\ has_decimal' = FALSE
                       /\ pc' = "tok_number"
                       /\ UNCHANGED <<tokens, exit>>
                  [] d = "continue" ->
                       UNCHANGED <<pc, tokens, digits, has_decimal, exit>>
                  [] OTHER ->
                       /\ Fail(UnrecognizedCharacter(n))
                       /\ UNCHANGED <<tokens, digits, has_decimal>>
    /\ UNCHANGED <<inVars, chars, parseVars, ast, stdout>>

\* What the literal loop does with the character k it peeks.
LiteralStep(k, seen_decimal) ==
    IF ~IsNumeric(k)
    THEN IF k = "."
         THEN (IF seen_decimal THEN "error" ELSE "point")
         ELSE "break"
    ELSE "digit"

\* tokens.push(Token::Number(digits.parse::<f64>()?))
PushNumber ==
    IF ParseF64(digits).ok
    THEN /\ tokens' = Append(tokens, Number(ParseF64(digits).value))
         /\ pc' = "tok_loop"
         /\ UNCHANGED exit
    ELSE /\ Fail(NumericParseFailure)
         /\ UNCHANGED tokens

\* One turn of `while let Some(&&k) = src.peek()`, and the push after it.
TokenizeDigit ==
    /\ pc = "tok_number"
    /\ LET k == PeekItem(chars, src_pos)
           step == IF k = None THEN "break" ELSE LiteralStep(k[1], has_decimal)
       IN  CASE step = "break" ->
                  /\ src_iter' = PeekIter(src_pos, src_iter, Len(chars))
                  /\ PushNumber
                  /\ UNCHANGED <<src_pos, digits, has_decimal>>
             [] step = "error" ->
                  /\ src_iter' = PeekIter(src_pos, src_iter, Len(chars))
                  /\ Fail(InvalidExpression)
                  /\ UNCHANGED <<src_pos, digits, has_decimal, tokens>>
             [] OTHER ->
                  /\ has_decimal' = (has_decimal \/ step = "point")
                  /\ digits' = Append(digits, k[1])
                  /\ src_pos' = NextPos(src_pos, Len(chars))
                  /\ src_iter' = NextIter(src_pos, PeekIter(src_pos, src_iter, Len(chars)),
                                          Len(chars))
                  /\ UNCHANGED <<pc, tokens, exit>>
    /\ UNCHANGED <<inVars, chars, parseVars, ast, stdout>>

\* ----------------------------------------------------------------- Parser
\* A call: the callee runs, then the caller goes on at `site`.
Call(callee, site) ==
    /\ pc' = callee
    /\ stack' = <<site>> \o stack

\* A return of the Option<ASTNode> `value` to the caller.
Return(value) ==
    /\ pc' = Head(stack)
    /\ stack' = Tail(stack)
    /\ ret' = value

\* let ast = Parser::new(tokens.iter().peekable()).parse_program()
ParseProgram ==
    /\ pc = "parse_program"
    /\ Call("parse_additive", "main_parsed")
    /\ UNCHANGED <<inVars, chars, lexVars, tokens, tok_pos, tok_iter, ret,
                   add_expr, add_op, mul_expr, mul_op, ast, stdout, exit>>

\* parse_additive calls parse_multiplicative for its left operand.
ParseAdditiveEnter ==
    /\ pc = "parse_additive"
    /\ Call("parse_multiplicative", "add_first")
    /\ UNCHANGED <<inVars, chars, lexVars, tokens, tok_pos, tok_iter, ret,
                   add_expr, add_op, mul_expr, mul_op, ast, stdout, exit>>

\* parse_multiplicative calls parse_primary_exp for its left operand.
ParseMultiplicativeEnter ==
    /\ pc = "parse_multiplicative"
    /\ Call("parse_primary_exp", "mul_first")
    /\ UNCHANGED <<inVars, chars, lexVars, tokens, tok_pos, tok_iter, ret,
                   add_expr, add_op, mul_expr, mul_op, ast, stdout, exit>>

\* parse_primary_exp's let-else on the token it peeks: the leaf it returns.
PrimaryNode(token) ==
    IF token.type = "Number" THEN Some(NumberNode(token.value)) ELSE None

\* parse_primary_exp as it would be with advance() in the place of peek().
PrimaryAdvancesAlways(token) == TRUE

\* Whether parse_primary_exp goes on to self.advance() after peeking token.
PrimaryAdvances(token) == token.type = "Number"

\* parse_primary_exp: a Number token is taken and becomes a leaf; any other
\* token, or none, is left where it is.
ParsePrimaryExp ==
    /\ pc = "parse_primary_exp"
    /\ LET t == PeekItem(tokens, tok_pos)
       IN  IF t = None
           THEN /\ tok_iter' = PeekIter(tok_pos, tok_iter, Len(tokens))
                /\ Return(None)
                /\ UNCHANGED tok_pos
           ELSE /\ tok_pos' = IF PrimaryAdvances(t[1])
                              THEN NextPos(tok_pos, Len(tokens)) ELSE tok_pos
                /\ tok_iter' = IF PrimaryAdvances(t[1])
                               THEN NextIter(tok_pos,
                                             PeekIter(tok_pos, tok_iter, Len(tokens)),
                                             Len(tokens))
                               ELSE PeekIter(tok_pos, tok_iter, Len(tokens))
                /\ Return(PrimaryNode(t[1]))
    /\ UNCHANGED <<inVars, chars, lexVars, tokens, add_expr, add_op, mul_expr, mul_op,
                   ast, stdout, exit>>

\* parse_multiplicative: let Some(mut expr) = self.parse_primary_exp()? else ..
ParseMultiplicativeFirst ==
    /\ pc = "mul_first"
    /\ IF ret = None
       THEN Return(None) /\ UNCHANGED mul_expr
       ELSE mul_expr' = ret /\ pc' = "mul_loop" /\ UNCHANGED <<stack, ret>>
    /\ UNCHANGED <<inVars, chars, lexVars, tokens, tok_pos, tok_iter,
                   add_expr, add_op, mul_op, ast, stdout, exit>>

\* The match as it would be with + and - taken at this level too.
MultiplicativeMatchTakesAdditive(token) ==
    CASE token.type \in {"Mul", "Div", "Add", "Sub"} -> <<"op", token.type>>
      [] token.type = "Number" -> <<"err">>
      [] OTHER -> <<"break">>

\* The match as it would be without the Number arm.
MultiplicativeMatchLenient(token) ==
    CASE token.type = "Mul" -> <<"op", "Mul">>
      [] token.type = "Div" -> <<"op", "Div">>
      [] OTHER -> <<"break">>

\* The match of parse_multiplicative's loop on the token it peeks.
MultiplicativeMatch(token) ==
    CASE token.type = "Mul" -> <<"op", "Mul">>
      [] token.type = "Div" -> <<"op", "Div">>
      [] token.type = "Number" -> <<"err">>
      [] OTHER -> <<"break">>

\* One turn of parse_multiplicative's loop up to the call for the right
\* operand, and the function's Ok(Some(expr)).
ParseMultiplicativeLoop ==
    /\ pc = "mul_loop"
    /\ LET t == PeekItem(tokens, tok_pos)
           m == IF t = None THEN <<"break">> ELSE MultiplicativeMatch(t[1])
       IN  CASE m[1] = "op" ->
                  /\ mul_op' = Some(m[2])
                  /\ tok_pos' = NextPos(tok_pos, Len(tokens))
                  /\ tok_iter' = NextIter(tok_pos, PeekIter(tok_pos, tok_iter, Len(tokens)),
                                          Len(tokens))
                  /\ Call("parse_primary_exp", "mul_right")
                  /\ UNCHANGED <<ret, exit>>
             [] m[1] = "err" ->
                  /\ tok_iter' = PeekIter(tok_pos, tok_iter, Len(tokens))
                  /\ Fail(InvalidExpression)
                  /\ UNCHANGED <<tok_pos, stack, ret, mul_op>>
             [] OTHER ->
                  /\ tok_iter' = PeekIter(tok_pos, tok_iter, Len(tokens))
                  /\ Return(mul_expr)
                  /\ UNCHANGED <<tok_pos, mul_op, exit>>
    /\ UNCHANGED <<inVars, chars, lexVars, tokens, add_expr, add_op, mul_expr,
                   ast, stdout>>

\* parse_multiplicative: if let Some(right) = self.parse_primary_exp()? ..
ParseMultiplicativeRight ==
    /\ pc = "mul_right"
    /\ IF ret # None
       THEN /\ mul_expr' = Some(BinaryOp(mul_expr[1], mul_op[1], ret[1]))
            /\ pc' = "mul_loop"
            /\ UNCHANGED <<stack, ret>>
       ELSE /\ Return(mul_expr)
            /\ UNCHANGED mul_expr
    /\ UNCHANGED <<inVars, chars, lexVars, tokens, tok_pos, tok_iter,
                   add_expr, add_op, mul_op, ast, stdout, exit>>

\* parse_additive: let Some(mut expr) = self.parse_multiplicative()? else ..
ParseAdditiveFirst ==
    /\ pc = "add_first"
    /\ IF ret = None
       THEN Return(None) /\ UNCHANGED add_expr
       ELSE add_expr' = ret /\ pc' = "add_loop" /\ UNCHANGED <<stack, ret>>
    /\ UNCHANGED <<inVars, chars, lexVars, tokens, tok_pos, tok_iter,
                   add_op, mul_expr, mul_op, ast, stdout, exit>>

\* The match of parse_additive's loop on the token it peeks.
AdditiveMatch(token) ==
    CASE token.type = "Add" -> <<"op", "Add">>
      [] token.type = "Sub" -> <<"op", "Sub">>
      [] token.type = "Number" -> <<"err">>
      [] OTHER -> <<"break">>

\* One turn of parse_additive's loop up to the call for the right operand,
\* and the function's Ok(Some(expr)).
ParseAdditiveLoop ==
    /\ pc = "add_loop"
    /\ LET t == PeekItem(tokens, tok_pos)
           m == IF t = None THEN <<"break">> ELSE AdditiveMatch(t[1])
       IN  CASE m[1] = "op" ->
                  /\ add_op' = Some(m[2])
                  /\ tok_pos' = NextPos(tok_pos, Len(tokens))
                  /\ tok_iter' = NextIter(tok_pos, PeekIter(tok_pos, tok_iter, Len(tokens)),
                                          Len(tokens))
                  /\ Call("parse_multiplicative", "add_right")
                  /\ UNCHANGED <<ret, exit>>
             [] m[1] = "err" ->
                  /\ tok_iter' = PeekIter(tok_pos, tok_iter, Len(tokens))
                  /\ Fail(InvalidExpression)
                  /\ UNCHANGED <<tok_pos, stack, ret, add_op>>
             [] OTHER ->
                  /\ tok_iter' = PeekIter(tok_pos, tok_iter, Len(tokens))
                  /\ Return(add_expr)
                  /\ UNCHANGED <<tok_pos, add_op, exit>>
    /\ UNCHANGED <<inVars, chars, lexVars, tokens, add_expr, mul_expr, mul_op,
                   ast, stdout>>

\* parse_additive: if let Some(right) = self.parse_multiplicative()? ..
ParseAdditiveRight ==
    /\ pc = "add_right"
    /\ IF ret # None
       THEN /\ add_expr' = Some(BinaryOp(add_expr[1], add_op[1], ret[1]))
            /\ pc' = "add_loop"
            /\ UNCHANGED <<stack, ret>>
       ELSE /\ Return(add_expr)
            /\ UNCHANGED add_expr
    /\ UNCHANGED <<inVars, chars, lexVars, tokens, tok_pos, tok_iter,
                   add_op, mul_expr, mul_op, ast, stdout, exit>>

\* ----------------------------------------------------------- main, the end
\* .ok_or(anyhow!("unable to parse expression"))?
MainParsed ==
    /\ pc = "main_parsed"
    /\ IF ret = None
       THEN Fail(ParseFailure) /\ UNCHANGED ast
       ELSE ast' = ret /\ pc' = "eval" /\ UNCHANGED exit
    /\ UNCHANGED <<inVars, chars, lexVars, tokens, parseVars, stdout>>

\* let result = format_float(ast.eval()); println!("{result}"); Ok(())
MainEval ==
    /\ pc = "eval"
    /\ stdout' = Append(stdout, <<"result", format_float(eval(ast[1]))>>)
    /\ pc' = "done"
    /\ exit' = Some(Ok)
    /\ UNCHANGED <<inVars, chars, lexVars, tokens, parseVars, ast>>

\* ---------------------------------------------------------- specifications
Tokenize == TokenizeCheck \/ TokenizeNext \/ TokenizeDigit

Parse ==
    \/ ParseProgram
    \/ ParseAdditiveEnter
    \/ ParseMultiplicativeEnter
    \/ ParsePrimaryExp
    \/ ParseMultiplicativeFirst
    \/ ParseMultiplicativeLoop
    \/ ParseMultiplicativeRight
    \/ ParseAdditiveFirst
    \/ ParseAdditiveLoop
    \/ ParseAdditiveRight
    \/ MainParsed
    \/ MainEval

Next == MainArgs \/ MainReadLine \/ Tokenize \/ Parse

\* One run of the program.
Spec == Init /\ [][Next]_vars

\* The operands of the token sequences handed directly to the parser.
Operands == {<<0, 1>>, <<2, 1>>}

Tokens == {Add, Sub, Mul, Div, Eof} \cup {Number(v) : v \in Operands}

TokenSeqs ==
    LET body == SeqsUpTo(Tokens, MaxToks)
    IN  body \cup {Append(s, Eof) : s \in body}

\* main from `Parser::new` on, the token vector being any token sequence.
ParserInit ==
    /\ args = <<>> /\ stdin = <<>>
    /\ pc = "parse_program"
    /\ chars = <<>> /\ src_pos = 0 /\ src_iter = 0
    /\ tokens \in TokenSeqs
    /\ digits = <<>> /\ has_decimal = FALSE
    /\ tok_pos = 0 /\ tok_iter = 0 /\ stack = <<>> /\ ret = None
    /\ add_expr = None /\ add_op = None /\ mul_expr = None /\ mul_op = None
    /\ ast = None /\ stdout = <<>> /\ exit = None

ParserSpec == ParserInit /\ [][Parse]_vars

\* =================================================== the parser's properties
IsOp(t) == t.type \in {"Add", "Sub", "Mul", "Div"}
IsAdditive(t) == t.type \in {"Add", "Sub"}

\* Number (op Number)*: operands at the odd places, operators between them.
IsOperandChain(s) ==
    /\ Len(s) % 2 = 1
    /\ \A i \in 1..Len(s) : IF i % 2 = 1 THEN s[i].type = "Number" ELSE IsOp(s[i])

\* Number (op Number)* EndOfInput
WellFormed(s) ==
    /\ Len(s) >= 2
    /\ s[Len(s)] = Eof
    /\ IsOperandChain(SubSeq(s, 1, Len(s) - 1))

\* The place of the last + or - of a chain, 0 if it has none.
LastAdditive(s) ==
    LET at == {i \in 1..Len(s) : IsAdditive(s[i])}
    IN  IF at = {} THEN 0 ELSE CHOOSE i \in at : \A j \in at : j <= i

\* The value of an operand chain by the usual reading: a chain without + or -
\* is folded from the left; otherwise the last + or - joins what is on its
\* left with the product on its right.
RECURSIVE RefValue(_)
RefValue(s) ==
    LET i == LastAdditive(s)
    IN  IF Len(s) = 1 THEN s[1].value
        ELSE IF i = 0
        THEN LET l == RefValue(SubSeq(s, 1, Len(s) - 2))
                 r == s[Len(s)].value
             IN  IF s[Len(s) - 1].type = "Mul" THEN FMul(l, r) ELSE FDiv(l, r)
        ELSE LET l == RefValue(SubSeq(s, 1, i - 1))
                 r == RefValue(SubSeq(s, i + 1, Len(s)))
             IN  IF s[i].type = "Add" THEN FAdd(l, r) ELSE FSub(l, r)

\* The tree of an operand chain by the same reading.
RECURSIVE RefTree(_)
RefTree(s) ==
    LET i == LastAdditive(s)
    IN  IF Len(s) = 1 THEN NumberNode(s[1].value)
        ELSE IF i = 0
        THEN BinaryOp(RefTree(SubSeq(s, 1, Len(s) - 2)), s[Len(s) - 1].type,
                      NumberNode(s[Len(s)].value))
        ELSE BinaryOp(RefTree(SubSeq(s, 1, i - 1)), s[i].type,
                      RefTree(SubSeq(s, i + 1, Len(s))))

RECURSIVE HasAdditive(_)
HasAdditive(node) ==
    /\ node.type = "BinaryOp"
    /\ \/ node.op \in {"Add", "Sub"}
       \/ HasAdditive(node.left)
       \/ HasAdditive(node.right)

\* (a): the right child of a Mul/Div node is a leaf, the right child of an
\* Add/Sub node holds no Add/Sub node.
RECURSIVE LeftAssociated(_)
LeftAssociated(node) ==
    \/ node.type = "Number"
    \/ /\ node.type = "BinaryOp"
       /\ IF node.op \in {"Mul", "Div"}
          THEN node.right.type = "Number"
          ELSE ~HasAdditive(node.right)
       /\ LeftAssociated(node.left)
       /\ LeftAssociated(node.right)

\* (b): no Add/Sub node below a Mul/Div node.
RECURSIVE PrecedenceLayered(_)
PrecedenceLayered(node) ==
    \/ node.type = "Number"
    \/ /\ node.type = "BinaryOp"
       /\ node.op \in {"Mul", "Div"} => ~HasAdditive(node.left) /\ ~HasAdditive(node.right)
       /\ PrecedenceLayered(node.left)
       /\ PrecedenceLayered(node.right)

\* The tokens of a tree, read from left to right.
RECURSIVE InOrder(_)
InOrder(node) ==
    IF node.type = "Number" THEN <<Number(node.value)>>
    ELSE InOrder(node.left) \o <<[type |-> node.op]>> \o InOrder(node.right)

Chain == SubSeq(tokens, 1, Len(tokens) - 1)
ResultLine(v) == <<"result", format_float(v)>>

\* C1: on a well-formed token sequence Number (op Number)* Eof the parse
\* never fails and never yields "no expression"; the tree it returns reads
\* back as the sequence, is left-associated within a level (a), keeps + and -
\* above x and / (b), and its eval is the value of the sequence with x and /
\* binding tighter and each level folded from the left, which is what is
\* printed.  (Two NaN results count as equal here.)
C1_PrecedenceAndAssociativity ==
    WellFormed(tokens) =>
        /\ exit # None => exit[1].ok
        /\ pc = "main_parsed" => ret # None
        /\ ast # None =>
             /\ InOrder(ast[1]) = Chain
             /\ LeftAssociated(ast[1])
             /\ PrecedenceLayered(ast[1])
             /\ eval(ast[1]) = RefValue(Chain)
        /\ pc = "done" => ast # None /\ stdout = <<ResultLine(RefValue(Chain))>>

\* C1's case: a sum or difference whose right operand is a product or
\* quotient, parsed and printed.
C1_Witness ==
    /\ WellFormed(tokens) /\ Len(tokens) = 6
    /\ IsAdditive(tokens[2]) /\ ~IsAdditive(tokens[4])
    /\ pc = "done" /\ exit = Some(Ok)
    /\ ast[1].op = tokens[2].type /\ ast[1].right.op = tokens[4].type

\* A Number token stands right after an operand of a well-formed start.
AdjacentNumbers(s) ==
    \E i \in 1..(Len(s) - 1) :
        /\ IsOperandChain(SubSeq(s, 1, i))
        /\ s[i + 1].type = "Number"

PeeksNumber ==
    /\ PeekItem(tokens, tok_pos) # None
    /\ PeekItem(tokens, tok_pos)[1].type = "Number"

\* C2: a step of the additive or the multiplicative loop that peeks a Number
\* right after an operand ends the parse with InvalidExpression and no tree;
\* so a sequence in which a Number follows an operand of a well-formed start
\* (two Numbers first, among others) is never parsed to a tree, never yields
\* "no expression" and never prints.
C2_AdjacentNumbersRejected ==
    /\ [][(pc \in {"mul_loop", "add_loop"} /\ PeeksNumber) =>
            (pc' = "done" /\ exit' = Some(Err(InvalidExpression)) /\ ast' = None
               /\ stdout' = stdout)]_vars
    /\ [](AdjacentNumbers(tokens) =>
            /\ pc \notin {"main_parsed", "eval"}
            /\ ast = None /\ stdout = <<>>
            /\ pc = "done" => exit = Some(Err(InvalidExpression)))

\* C2's case: the extra Number comes after an operator and its operand.
C2_Witness ==
    /\ Len(tokens) >= 4
    /\ IsOperandChain(SubSeq(tokens, 1, 3)) /\ tokens[4].type = "Number"
    /\ pc = "done" /\ exit = Some(Err(InvalidExpression)) /\ tok_pos = 3

\* The operator at place i is dangling: the tokens before it are an operand
\* chain, which the parser takes, and no Number follows it.
Dangling(s, i) ==
    /\ i >= 2
    /\ IsOperandChain(SubSeq(s, 1, i - 1))
    /\ IsOp(s[i])
    /\ i = Len(s) \/ s[i + 1].type # "Number"

\* C3: with a dangling operator in the sequence the parse does not fail, and
\* the tree it returns is the tree of the tokens before that operator.
C3_DanglingOperatorTruncates ==
    \A i \in 1..Len(tokens) :
        Dangling(tokens, i) =>
            /\ exit # None => exit[1].ok
            /\ pc = "done" => ast = Some(RefTree(SubSeq(tokens, 1, i - 1)))

FirstIsNumber == Len(tokens) >= 1 /\ tokens[1].type = "Number"

\* C7: parse_program returns None exactly when the first token is no Number
\* (or there is none), having taken no token, and main then fails with
\* "unable to parse expression"; with a Number first the run ends with a
\* tree or with InvalidExpression.
C7_NoExpressionIffNoLeadingNumber ==
    /\ pc = "main_parsed" => (ret = None <=> ~FirstIsNumber)
    /\ ~FirstIsNumber => tok_pos = 0 /\ ast = None
    /\ (pc = "done" /\ ~FirstIsNumber) => exit = Some(Err(ParseFailure))
    /\ (pc = "done" /\ FirstIsNumber) =>
           \/ exit = Some(Ok) /\ ast # None
           \/ exit = Some(Err(InvalidExpression)) /\ ast = None

\* C7's case: an operator comes first and a Number after it.
C7_Witness ==
    /\ Len(tokens) >= 2 /\ IsOp(tokens[1]) /\ tokens[2].type = "Number"
    /\ pc = "done" /\ exit = Some(Err(ParseFailure)) /\ tok_pos = 0

\* ================================================= the pipeline's properties
ParserPcs == {"parse_program", "parse_additive", "parse_multiplicative",
              "parse_primary_exp", "mul_first", "mul_loop", "mul_right",
              "add_first", "add_loop", "add_right", "main_parsed"}

\* main has called tokenize: an expression came from the arguments or from
\* standard input.
TokenizeCalled ==
    /\ pc \notin {"main", "read_line"}
    /\ IF Len(args) > 0
       THEN args[1] \notin HelpFlags \cup VersionFlags
       ELSE chars # <<>>

\* tokenize has returned Ok: only its last statement pushes Eof.
TokenizeReturnedOk == tokens # <<>> /\ tokens[Len(tokens)] = Eof

Failed == exit # None /\ ~exit[1].ok

\* C4: tokenize fails with InvalidExpression, and with no token, when the
\* input is empty or its first character is not one of '0'..'9'.
C4_LeadingNonDigitRejected ==
    (TokenizeCalled /\ (chars = <<>> \/ chars[1] \notin AsciiDigits)) =>
        /\ tokens = <<>>
        /\ pc # "tokenize" => pc = "done" /\ exit = Some(Err(InvalidExpression))

PeeksChar(c) == PeekItem(chars, src_pos) = Some(c)
CountOf(c, s) == Cardinality({i \in 1..Len(s) : s[i] = c})

\* C5: the literal loop takes a first '.' into the literal and fails with
\* InvalidExpression on a second one; where the literal ends, exactly one
\* Number token is pushed for it; the outer loop fails on a '.' with
\* UnrecognizedCharacter('.').
C5_AtMostOneDecimalPoint ==
    /\ [](CountOf(".", digits) <= 1)
    /\ [][(pc = "tok_number" /\ PeeksChar(".")) =>
            IF CountOf(".", digits) = 0
            THEN pc' = "tok_number" /\ digits' = Append(digits, ".") /\ tokens' = tokens
            ELSE pc' = "done" /\ exit' = Some(Err(InvalidExpression))]_vars
    /\ [][(pc = "tok_number" /\ pc' # "tok_number" /\ ~PeeksChar(".")) =>
            /\ pc' = "tok_loop"
            /\ Len(tokens') = Len(tokens) + 1
            /\ SubSeq(tokens', 1, Len(tokens)) = tokens
            /\ tokens'[Len(tokens')].type = "Number"]_vars
    /\ [][(pc = "tok_loop" /\ PeeksChar(".")) =>
            pc' = "done" /\ exit' = Some(Err(UnrecognizedCharacter(".")))]_vars

\* C6: tokenize never fails at the conversion of a literal to f64.
C6_NumericParseFailureUnreachable == exit # Some(Err(NumericParseFailure))

ResultPrinted == \E i \in 1..Len(stdout) : stdout[i][1] = "result"

\* The run showed the help or the version and nothing else.
DisplayOnly ==
    /\ stdout # <<>>
    /\ \/ stdout[Len(stdout)] = <<"help">>
       \/ Len(args) > 0 /\ args[1] \in VersionFlags /\ stdout = <<(<<"version">>)>>

\* C8: a result line is printed only at the successful end of a run whose
\* tokenize and parse both succeeded, and it is the formatted eval of the
\* parsed tree; a run that fails has printed no result; a stage runs only
\* after the one before it succeeded, and nothing runs once main has
\* returned.
C8_AllOrNothing ==
    /\ [][exit = None]_vars
    /\ [](/\ ResultPrinted =>
               /\ pc = "done" /\ exit = Some(Ok)
               /\ TokenizeCalled /\ TokenizeReturnedOk
               /\ ast # None
               /\ stdout[Len(stdout)] = ResultLine(eval(ast[1]))
               /\ Cardinality({i \in 1..Len(stdout) : stdout[i][1] = "result"}) = 1
          /\ exit # None <=> pc = "done"
          /\ Failed => ~ResultPrinted
          /\ exit = Some(Ok) => ResultPrinted \/ DisplayOnly
          /\ pc \in ParserPcs \cup {"eval"} => TokenizeCalled /\ TokenizeReturnedOk
          /\ pc = "eval" => ast # None
          /\ (pc = "done" /\ ~TokenizeReturnedOk) =>
               /\ tok_pos = 0 /\ tok_iter = 0 /\ stack = <<>> /\ ast = None
               /\ Failed \/ DisplayOnly
          /\ (pc = "done" /\ ast = None) => Failed \/ DisplayOnly
          /\ (pc = "done" /\ Len(args) = 0 /\ Trim(stdin) = <<>>) =>
               /\ exit \in {Some(Err(NoExpressionProvided)), Some(Err(IoError))}
               /\ tokens = <<>>)

\* C8's case: a run that tokenized, parsed, evaluated and printed.
C8_Witness ==
    /\ pc = "done" /\ exit = Some(Ok) /\ ResultPrinted
    /\ Len(tokens) >= 4 /\ ast[1].type = "BinaryOp"

\* C9: once tokenize has returned Ok the token vector starts with a Number
\* and holds Eof at its end and nowhere else; Eof is in the vector at no
\* other time; parse_program then never returns None, and no run ends with
\* "unable to parse expression".
C9_TokenizerOutputShape ==
    /\ \A i \in 1..Len(tokens) :
         tokens[i] = Eof => i = Len(tokens) /\ pc \in ParserPcs \cup {"eval", "done"}
    /\ pc \in ParserPcs \cup {"eval"} =>
         /\ Len(tokens) >= 2
         /\ tokens[1].type = "Number"
         /\ tokens[Len(tokens)] = Eof
    /\ pc = "main_parsed" => ret # None
    /\ exit # Some(Err(ParseFailure))

\* C9's case: tokenize returned several tokens and the parser has run.
C9_Witness ==
    /\ pc = "main_parsed" /\ Len(tokens) >= 4 /\ IsOp(tokens[2])

Rank(p) ==
    CASE p = "done" -> 0
      [] p = "eval" -> 1
      [] p = "main_parsed" -> 2
      [] p = "add_loop" -> 3
      [] p = "add_right" -> 4
      [] p = "add_first" -> 5
      [] p = "mul_loop" -> 6
      [] p = "mul_right" -> 7
      [] p = "mul_first" -> 8
      [] p = "parse_primary_exp" -> 9
      [] p = "parse_multiplicative" -> 10
      [] p = "parse_additive" -> 11
      [] p = "parse_program" -> 12
      [] p = "tok_loop" -> 0
      [] p = "tok_number" -> 1
      [] p = "tokenize" -> 1
      [] p = "read_line" -> 2
      [] p = "main" -> 3

\* The chars still to be taken by tokenize.
CharsLeft ==
    IF pc \in {"main", "read_line"} THEN Len(Join(args)) + Len(stdin)
    ELSE Len(chars) - src_pos

\* A bound on the steps the run has left: 13 for each token the parser has
\* not taken, and before the parser starts 13 for each token tokenize may
\* still push and 2 for each char it has not taken.
StepsLeft ==
    IF pc \in ParserPcs \cup {"eval", "done"}
    THEN 13 * (Len(tokens) - tok_pos) + Rank(pc)
    ELSE 13 * (Len(tokens) + CharsLeft + (IF pc = "tok_number" THEN 1 ELSE 0) + 1)
           + 13 + 2 * CharsLeft + Rank(pc)

\* C10: the cursors of tokenize and of the parser never move back and move
\* by one element at a time; neither scanner pulls more than one element
\* past what it has taken; a turn of a loop takes an element or leaves the
\* loop; the parser leaves the token vector, and tokenize the chars, as they
\* are; every step lowers a bound that is linear in the input, and a run
\* stops only when main has returned.
C10_SinglePassTermination ==
    /\ [](/\ src_pos <= src_iter /\ src_iter <= src_pos + 1 /\ src_iter <= Len(chars)
          /\ tok_pos <= tok_iter /\ tok_iter <= tok_pos + 1 /\ tok_iter <= Len(tokens)
          /\ StepsLeft >= 0
          /\ pc = "done" \/ ENABLED Next
          /\ pc = "done" => exit # None)
    /\ [][/\ src_pos' \in {src_pos, src_pos + 1}
          /\ tok_pos' \in {tok_pos, tok_pos + 1}
          /\ src_iter' >= src_iter /\ tok_iter' >= tok_iter
          /\ StepsLeft' < StepsLeft
          /\ pc \in ParserPcs \cup {"eval"} => tokens' = tokens
          /\ pc \notin {"main", "read_line"} => chars' = chars
          /\ pc = "tok_loop" =>
               \/ pc' \in {"tok_loop", "tok_number"} /\ src_pos' = src_pos + 1
               \/ pc' \in {"parse_program", "done"}
          /\ pc = "tok_number" =>
               \/ pc' = "tok_number" /\ src_pos' = src_pos + 1
               \/ pc' \in {"tok_loop", "done"} /\ src_pos' = src_pos
          /\ pc = "mul_loop" =>
               \/ pc' = "parse_primary_exp" /\ tok_pos' = tok_pos + 1
               \/ pc' = "done"
               \/ pc' = Head(stack) /\ stack' = Tail(stack)
          /\ pc = "add_loop" =>
               \/ pc' = "parse_multiplicative" /\ tok_pos' = tok_pos + 1
               \/ pc' = "done"
               \/ pc' = Head(stack) /\ stack' = Tail(stack)]_vars

\* C10's case: the literal loop has taken a second digit, both loops of the
\* parser have taken an operator, and the run has ended.
C10_Witness ==
    /\ pc = "done" /\ exit = Some(Ok)
    /\ Len(digits) >= 2 /\ src_pos = Len(chars)
    /\ mul_op # None /\ add_op # None /\ tok_pos = 3 /\ tok_iter = 4

=============================================================================
